---------------------------- MODULE Spec2Model ----------------------------
(***************************************************************************)
(* Model of itrik_Surfers.py: the Player physics, the entities, the        *)
(* session object ItrikSurfers (update, reset, game_over_screen) and the   *)
(* main loop's event dispatch.                                             *)
(*                                                                         *)
(* Number representation.  The source computes the player's y and dy in    *)
(* floats that are multiples of 0.1 (gravity 0.9, jump -16, double jump    *)
(* -14.4); the model keeps them as integers in tenths.  The scroll speed   *)
(* is 6.0 plus a number of 0.0005 increments; the model keeps it in units  *)
(* of 0.0005 (SPEED_UNIT units = 1 pixel per tick).  distance accumulates  *)
(* scroll_speed / 10 and is kept in units of 0.00005.                      *)
(***************************************************************************)
EXTENDS Integers, Sequences, FiniteSets, TLC

\* ------------------------------------------------------------ Config
WIDTH == 900
HEIGHT == 500
FPS == 60
GROUND_Y == HEIGHT - 90
PLAYER_X == 120

\* one pixel in the unit of player.y and player.dy (tenths of a pixel)
TENTH == 10
\* one pixel per tick in the unit of scroll_speed (0.0005 pixel per tick)
SPEED_UNIT == 2000

\* Player.__init__
PLAYER_WIDTH == 48
PLAYER_HEIGHT == 64
\* gravity 0.9, in tenths
GRAVITY == 9
\* jump_strength -16, in tenths
JUMP_STRENGTH == -160
\* Coin.r and PowerUp.r
COIN_R == 10
POWER_R == 14
\* ItrikSurfers.__init__ / reset: scroll_speed = 6.0
INITIAL_SPEED == 6 * SPEED_UNIT
\* difficulty_increment 0.0005, in units of scroll_speed
DIFFICULTY_INCREMENT == 1
\* the off-screen margin of update(): x < -50
OFFSCREEN == -50
\* spawn thresholds of update()
SPAWN_FLOOR == 18
SPAWN_BASE == 70
COIN_PERIOD == 40
POWER_PERIOD == 900
\* score awards of update()
PASS_SCORE == 5
COIN_SCORE == 10
\* the divisor of the distance-based score, int(scroll_speed / 250)
BONUS_DIVISOR == 250

\* the y of a grounded player, GROUND_Y - self.height, in tenths
GroundedY == (GROUND_Y - PLAYER_HEIGHT) * TENTH

\* ------------------------------------------------------------ Rect
\* pygame.Rect as [x, y, w, h]
Rect(x, y, w, h) == [x |-> x, y |-> y, w |-> w, h |-> h]

\* Rect.colliderect: the rectangles overlap; touching edges do not collide
colliderect(a, b) ==
    /\ a.x < b.x + b.w
    /\ a.y < b.y + b.h
    /\ a.x + a.w > b.x
    /\ a.y + a.h > b.y

\* ------------------------------------------------------------ Player
\* The (y, dy) pairs, in tenths, at which the float y of the source lies just
\* below the integer it equals in exact arithmetic (for instance
\* 246.99999999999997 for 247.0), so that int(self.y) is one less.
FloatBelowInteger ==
    { <<1410, -54>>, <<1480, -54>>, <<1680, -90>>, <<1750, -90>>, <<1770, -99>>,
      <<1840, -99>>, <<1920, -45>>, <<2220, -135>>, <<2290, -135>>, <<2470, -45>> }

\* int(self.y) of Player.update, on the float the source holds
IntY(y, dy) ==
    IF <<y, dy>> \in FloatBelowInteger THEN (y \div TENTH) - 1 ELSE y \div TENTH

\* Player.__init__
PlayerInit ==
    [ y |-> GroundedY, dy |-> 0, on_ground |-> TRUE, double_jump_allowed |-> TRUE,
      rect_y |-> GROUND_Y - PLAYER_HEIGHT, shield |-> 0 ]

\* Player.rect
PlayerRect(p) == Rect(PLAYER_X, p.rect_y, PLAYER_WIDTH, PLAYER_HEIGHT)

\* Land without giving the double jump back
LandWithoutDoubleJump(p) ==
    [p EXCEPT !.y = GroundedY, !.dy = 0, !.on_ground = TRUE]

\* Land with the clamp of y forgotten
LandUnclamped(p) ==
    [p EXCEPT !.y = p.y + p.dy + GRAVITY, !.dy = 0, !.on_ground = TRUE,
              !.double_jump_allowed = TRUE]

\* the landing branch of Player.update: y clamped, velocity zeroed
Land(p) ==
    [p EXCEPT !.y = GroundedY, !.dy = 0, !.on_ground = TRUE,
              !.double_jump_allowed = TRUE]

\* the shield countdown of Player.update
ShieldTick(shield) == IF shield > 0 THEN shield - 1 ELSE shield

\* Player.update
PlayerUpdate(p) ==
    LET dy == p.dy + GRAVITY
        y  == p.y + dy
        q  == IF y >= GroundedY
                THEN Land(p)
                ELSE [p EXCEPT !.y = y, !.dy = dy, !.on_ground = FALSE]
    IN  [q EXCEPT !.rect_y = IntY(q.y, q.dy), !.shield = ShieldTick(p.shield)]

\* a jump from the ground at twice the jump strength
GroundJumpTwiceAsStrong(p) ==
    [p EXCEPT !.dy = 2 * JUMP_STRENGTH, !.on_ground = FALSE,
              !.double_jump_allowed = TRUE]

\* the first branch of Player.jump: a jump from the ground
GroundJump(p) ==
    [p EXCEPT !.dy = JUMP_STRENGTH, !.on_ground = FALSE,
              !.double_jump_allowed = TRUE]

\* the double jump with double_jump_allowed left set
DoubleJumpKeepsFlag(p) ==
    [p EXCEPT !.dy = (JUMP_STRENGTH * 9) \div 10]

\* the second branch of Player.jump: the double jump, 0.9 * jump_strength
DoubleJump(p) ==
    [p EXCEPT !.dy = (JUMP_STRENGTH * 9) \div 10, !.double_jump_allowed = FALSE]

\* Player.jump
PlayerJump(p) ==
    IF p.on_ground THEN GroundJump(p)
    ELSE IF p.double_jump_allowed THEN DoubleJump(p)
    ELSE p

\* ------------------------------------------------------------ Entities
\* Obstacle.__init__; id stands for the identity of the Python object
Obstacle(id, x, w, h, speed) ==
    [id |-> id, x |-> x, w |-> w, h |-> h, speed |-> speed, passed |-> FALSE]

\* Obstacle.rect: Rect(x, GROUND_Y - h, w, h), its x moved by update
ObstacleRect(ob) == Rect(ob.x, GROUND_Y - ob.h, ob.w, ob.h)

\* Rect.right of an obstacle
ObstacleRight(ob) == ob.x + ob.w

\* The scroll speeds, in units of 0.0005, at which the float of the source (6.0
\* with 0.0005 added once per tick) lies just below the integer it equals in
\* exact arithmetic: 6.999999999999446 after 2000 ticks, 7.9999999999988916
\* after 4000.  No other speed below 16.0 differs in its integer part.
FloatSpeedBelow == {7 * SPEED_UNIT, 8 * SPEED_UNIT}

\* int(x) of a float x = n / SPEED_UNIT computed from the scroll speed `speed`
IntOf(n, speed) ==
    IF speed \in FloatSpeedBelow THEN (n \div SPEED_UNIT) - 1 ELSE n \div SPEED_UNIT

\* int(self.speed) of the entities' update, the speed in units of 0.0005
IntSpeed(speed) == IntOf(speed, speed)

\* Obstacle.update
ObstacleUpdate(ob) == [ob EXCEPT !.x = ob.x - IntSpeed(ob.speed)]

\* Coin.__init__
Coin(id, x, y, speed) ==
    [id |-> id, x |-> x, y |-> y, speed |-> speed, collected |-> FALSE]

\* Coin.rect, as Coin.update sets it
CoinRect(c) == Rect(c.x - COIN_R, c.y - COIN_R, COIN_R * 2, COIN_R * 2)

\* Coin.update moving by the speed rounded to the nearest integer
CoinUpdateRounded(c) ==
    [c EXCEPT !.x = c.x - (2 * c.speed + SPEED_UNIT) \div (2 * SPEED_UNIT)]

\* Coin.update
CoinUpdate(c) == [c EXCEPT !.x = c.x - IntSpeed(c.speed)]

\* PowerUp.__init__
PowerUp(id, x, y, speed, kind) ==
    [id |-> id, x |-> x, y |-> y, speed |-> speed, kind |-> kind]

\* PowerUp.rect, as PowerUp.update sets it
PowerUpRect(p) == Rect(p.x - POWER_R, p.y - POWER_R, POWER_R * 2, POWER_R * 2)

\* PowerUp.update
PowerUpUpdate(p) == [p EXCEPT !.x = p.x - IntSpeed(p.speed)]

\* ------------------------------------------------------------ Lists
\* whether the object with this identity is in the list
Has(list, id) == \E i \in 1..Len(list) : list[i].id = id

\* list.remove(e): the list without the object of this identity
Remove(list, id) == SelectSeq(list, LAMBDA e : e.id # id)

\* a mutation of an object, seen through the list that holds it
Store(list, e) == [i \in 1..Len(list) |-> IF list[i].id = e.id THEN e ELSE list[i]]

\* ------------------------------------------------------------ ItrikSurfers
\* ItrikSurfers.__init__, the high score as load_highscore() returned it
GameInit(highscore) ==
    [ running |-> TRUE, playing |-> FALSE, player |-> PlayerInit,
      scroll_speed |-> INITIAL_SPEED, spawn_timer |-> 0, coin_timer |-> 0,
      power_timer |-> 0, obstacles |-> <<>>, coins |-> <<>>, powerups |-> <<>>,
      score |-> 0, distance |-> 0, highscore |-> highscore, game_over |-> FALSE ]

\* reset leaving the coins and the power-up timer of the ended session
reset_partial(g) ==
    [g EXCEPT !.player = PlayerInit, !.obstacles = <<>>,
              !.powerups = <<>>, !.score = 0, !.distance = 0,
              !.scroll_speed = INITIAL_SPEED, !.spawn_timer = 0,
              !.coin_timer = 0, !.game_over = FALSE]

\* ItrikSurfers.reset
reset(g) ==
    [g EXCEPT !.player = PlayerInit, !.obstacles = <<>>, !.coins = <<>>,
              !.powerups = <<>>, !.score = 0, !.distance = 0,
              !.scroll_speed = INITIAL_SPEED, !.spawn_timer = 0,
              !.coin_timer = 0, !.power_timer = 0, !.game_over = FALSE]

\* max(18, 70 - int(self.scroll_speed*3)), the speed in units of 0.0005
SpawnThreshold(speed) ==
    LET t == SPAWN_BASE - IntOf(speed * 3, speed)
    IN  IF t > SPAWN_FLOOR THEN t ELSE SPAWN_FLOOR

\* the ramp with the increment subtracted
RampDown(g) ==
    [g EXCEPT !.scroll_speed = @ - DIFFICULTY_INCREMENT,
              !.distance = @ + (g.scroll_speed - DIFFICULTY_INCREMENT)]

\* the first lines of update(): the difficulty ramp and the distance
Ramp(g) ==
    [g EXCEPT !.scroll_speed = @ + DIFFICULTY_INCREMENT,
              !.distance = @ + (g.scroll_speed + DIFFICULTY_INCREMENT)]

\* whether this update() spawns an obstacle, a coin, a power-up
SpawnsObstacle(g) == g.spawn_timer + 1 > SpawnThreshold(Ramp(g).scroll_speed)
SpawnsCoin(g) == g.coin_timer + 1 > COIN_PERIOD
SpawnsPowerUp(g) == g.power_timer + 1 > POWER_PERIOD

\* spawn_obstacle, with the draws w, h and x of random.randint
spawn_obstacle(g, d) ==
    [g EXCEPT !.obstacles =
        Append(@, Obstacle(g.scroll_speed, WIDTH + d.x, d.w, d.h, g.scroll_speed))]

\* spawn_coin, with the draws x and y
spawn_coin(g, d) ==
    [g EXCEPT !.coins = Append(@, Coin(g.scroll_speed, WIDTH + d.x, d.y, g.scroll_speed))]

\* spawn_powerup, with the draws x and y
spawn_powerup(g, d) ==
    [g EXCEPT !.powerups =
        Append(@, PowerUp(g.scroll_speed, WIDTH + d.x, d.y, g.scroll_speed, "shield"))]

\* the spawn logic with the coin spawned one tick early (>= for >)
SpawnLogicCoinEarly(g, d) ==
    LET g1 == IF g.spawn_timer + 1 > SpawnThreshold(g.scroll_speed)
                THEN [spawn_obstacle(g, d.obstacle) EXCEPT !.spawn_timer = 0]
                ELSE [g EXCEPT !.spawn_timer = @ + 1]
        g2 == IF g1.coin_timer + 1 >= COIN_PERIOD
                THEN [spawn_coin(g1, d.coin) EXCEPT !.coin_timer = 0]
                ELSE [g1 EXCEPT !.coin_timer = @ + 1]
    IN  IF g2.power_timer + 1 > POWER_PERIOD
          THEN [spawn_powerup(g2, d.powerup) EXCEPT !.power_timer = 0]
          ELSE [g2 EXCEPT !.power_timer = @ + 1]

\* the spawn logic of update(): the three timers
SpawnLogic(g, d) ==
    LET g1 == IF g.spawn_timer + 1 > SpawnThreshold(g.scroll_speed)
                THEN [spawn_obstacle(g, d.obstacle) EXCEPT !.spawn_timer = 0]
                ELSE [g EXCEPT !.spawn_timer = @ + 1]
        g2 == IF g1.coin_timer + 1 > COIN_PERIOD
                THEN [spawn_coin(g1, d.coin) EXCEPT !.coin_timer = 0]
                ELSE [g1 EXCEPT !.coin_timer = @ + 1]
    IN  IF g2.power_timer + 1 > POWER_PERIOD
          THEN [spawn_powerup(g2, d.powerup) EXCEPT !.power_timer = 0]
          ELSE [g2 EXCEPT !.power_timer = @ + 1]

\* the off-screen removal calling self.obstacles.remove(ob) a second time
ObstacleOffscreenTwice(g, ob) ==
    IF ObstacleRight(ob) < OFFSCREEN
      THEN [g |-> [g EXCEPT !.obstacles = Remove(@, ob.id)],
            raised |-> ~Has(Remove(g.obstacles, ob.id), ob.id)]
      ELSE [g |-> g, raised |-> FALSE]

\* the off-screen removal of an obstacle, self.obstacles.remove(ob) unguarded:
\* a record of the session and of whether the removal raised ValueError
ObstacleOffscreen(g, ob) ==
    IF ObstacleRight(ob) < OFFSCREEN
      THEN [g |-> [g EXCEPT !.obstacles = Remove(@, ob.id)],
            raised |-> ~Has(g.obstacles, ob.id)]
      ELSE [g |-> g, raised |-> FALSE]

\* the collision branch with the shield spent by the obstacle it destroys
ObstacleCollisionSpendsShield(g, ob) ==
    IF colliderect(ObstacleRect(ob), PlayerRect(g.player))
      THEN IF g.player.shield <= 0
             THEN [g EXCEPT !.game_over = TRUE, !.playing = FALSE]
             ELSE [g EXCEPT !.obstacles = Remove(@, ob.id), !.player.shield = 0]
      ELSE g

\* the collision branch with the shield test off by one (shield < 0)
ObstacleCollisionShieldAtZero(g, ob) ==
    IF colliderect(ObstacleRect(ob), PlayerRect(g.player))
      THEN IF g.player.shield < 0
             THEN [g EXCEPT !.game_over = TRUE, !.playing = FALSE]
             ELSE [g EXCEPT !.obstacles = Remove(@, ob.id)]
      ELSE g

\* the collision branch of the obstacle loop
ObstacleCollision(g, ob) ==
    IF colliderect(ObstacleRect(ob), PlayerRect(g.player))
      THEN IF g.player.shield <= 0
             THEN [g EXCEPT !.game_over = TRUE, !.playing = FALSE]
             ELSE [g EXCEPT !.obstacles = Remove(@, ob.id)]
      ELSE g

\* the scoring with the passed flag never set
ObstaclePassedUnmarked(g, ob) ==
    IF ~ob.passed /\ ObstacleRight(ob) < PLAYER_X
      THEN [g EXCEPT !.score = @ + PASS_SCORE]
      ELSE g

\* scoring for passing obstacles
ObstaclePassed(g, ob) ==
    IF ~ob.passed /\ ObstacleRight(ob) < PLAYER_X
      THEN [g EXCEPT !.obstacles = Store(@, [ob EXCEPT !.passed = TRUE]),
                     !.score = @ + PASS_SCORE]
      ELSE g

\* one iteration of the obstacle loop, on an object of the copied list
ObstacleStep(a, ob0) ==
    IF a.raised THEN a
    ELSE LET ob == ObstacleUpdate([ob0 EXCEPT !.speed = a.g.scroll_speed])
             g1 == [a.g EXCEPT !.obstacles = Store(@, ob)]
             off == ObstacleOffscreen(g1, ob)
         IN  IF off.raised THEN off
             ELSE [g |-> ObstaclePassed(ObstacleCollision(off.g, ob), ob),
                   raised |-> FALSE]

\* for ob in self.obstacles[:]
RECURSIVE ObstacleLoop(_, _, _)
ObstacleLoop(a, copy, i) ==
    IF i > Len(copy) THEN a ELSE ObstacleLoop(ObstacleStep(a, copy[i]), copy, i + 1)

\* the off-screen removal of a coin decided on its right edge
CoinOffscreenByEdge(g, c) ==
    IF c.x + COIN_R < OFFSCREEN
      THEN [g |-> [g EXCEPT !.coins = Remove(@, c.id)], raised |-> ~Has(g.coins, c.id)]
      ELSE [g |-> g, raised |-> FALSE]

\* the off-screen removal of a coin, self.coins.remove(c) unguarded
CoinOffscreen(g, c) ==
    IF c.x < OFFSCREEN
      THEN [g |-> [g EXCEPT !.coins = Remove(@, c.id)], raised |-> ~Has(g.coins, c.id)]
      ELSE [g |-> g, raised |-> FALSE]

\* the collection branch with the coin left in the list
CoinCollisionKept(g, c) ==
    IF colliderect(CoinRect(c), PlayerRect(g.player)) /\ ~c.collected
      THEN [g EXCEPT !.coins = Store(@, [c EXCEPT !.collected = TRUE]),
                     !.score = @ + COIN_SCORE]
      ELSE g

\* the collection branch of the coin loop
CoinCollision(g, c) ==
    IF colliderect(CoinRect(c), PlayerRect(g.player)) /\ ~c.collected
      THEN [g EXCEPT !.coins = Remove(Store(@, [c EXCEPT !.collected = TRUE]), c.id),
                     !.score = @ + COIN_SCORE]
      ELSE g

\* one iteration of the coin loop
CoinStep(a, c0) ==
    IF a.raised THEN a
    ELSE LET c == CoinUpdate([c0 EXCEPT !.speed = a.g.scroll_speed])
             g1 == [a.g EXCEPT !.coins = Store(@, c)]
             off == CoinOffscreen(g1, c)
         IN  IF off.raised THEN off
             ELSE [g |-> CoinCollision(off.g, c), raised |-> FALSE]

\* for c in self.coins[:]
RECURSIVE CoinLoop(_, _, _)
CoinLoop(a, copy, i) ==
    IF i > Len(copy) THEN a ELSE CoinLoop(CoinStep(a, copy[i]), copy, i + 1)

\* the off-screen removal of a power-up, self.powerups.remove(p) unguarded
PowerUpOffscreen(g, p) ==
    IF p.x < OFFSCREEN
      THEN [g |-> [g EXCEPT !.powerups = Remove(@, p.id)],
            raised |-> ~Has(g.powerups, p.id)]
      ELSE [g |-> g, raised |-> FALSE]

\* the pickup branch with the power-up left in the list
PowerUpCollisionKept(g, p) ==
    IF colliderect(PowerUpRect(p), PlayerRect(g.player))
      THEN [g EXCEPT !.player.shield = IF p.kind = "shield" THEN FPS * 3 ELSE @]
      ELSE g

\* the pickup branch of the power-up loop
PowerUpCollision(g, p) ==
    IF colliderect(PowerUpRect(p), PlayerRect(g.player))
      THEN [g EXCEPT !.player.shield = IF p.kind = "shield" THEN FPS * 3 ELSE @,
                     !.powerups = Remove(@, p.id)]
      ELSE g

\* one iteration of the power-up loop
PowerUpStep(a, p0) ==
    IF a.raised THEN a
    ELSE LET p == PowerUpUpdate([p0 EXCEPT !.speed = a.g.scroll_speed])
             g1 == [a.g EXCEPT !.powerups = Store(@, p)]
             off == PowerUpOffscreen(g1, p)
         IN  IF off.raised THEN off
             ELSE [g |-> PowerUpCollision(off.g, p), raised |-> FALSE]

\* for p in self.powerups[:]
RECURSIVE PowerUpLoop(_, _, _)
PowerUpLoop(a, copy, i) ==
    IF i > Len(copy) THEN a ELSE PowerUpLoop(PowerUpStep(a, copy[i]), copy, i + 1)

\* the distance-based score, int(self.scroll_speed / 250)
Bonus(speed) == speed \div (BONUS_DIVISOR * SPEED_UNIT)

\* the session after Player.update: update() up to its entity loops
UpdatePlayer(g, d) == [SpawnLogic(Ramp(g), d) EXCEPT !.player = PlayerUpdate(@)]

\* update() without its guard on playing
update_unguarded(g, d) ==
    LET g1 == UpdatePlayer(g, d)
        a1 == ObstacleLoop([g |-> g1, raised |-> FALSE], g1.obstacles, 1)
        a2 == CoinLoop(a1, a1.g.coins, 1)
        a3 == PowerUpLoop(a2, a2.g.powerups, 1)
    IN  IF a3.raised THEN a3
        ELSE [g |-> [a3.g EXCEPT !.score = @ + Bonus(a3.g.scroll_speed)],
              raised |-> FALSE]

\* ItrikSurfers.update with the draws d of its spawns: the session it leaves
\* and whether it raised
update(g, d) ==
    IF ~g.playing THEN [g |-> g, raised |-> FALSE]
    ELSE LET g1 == UpdatePlayer(g, d)
             a1 == ObstacleLoop([g |-> g1, raised |-> FALSE], g1.obstacles, 1)
             a2 == CoinLoop(a1, a1.g.coins, 1)
             a3 == PowerUpLoop(a2, a2.g.powerups, 1)
         IN  IF a3.raised THEN a3
             ELSE [g |-> [a3.g EXCEPT !.score = @ + Bonus(a3.g.scroll_speed)],
                   raised |-> FALSE]

\* game_over_screen saving the score whatever the stored high score
game_over_screen_always(g) ==
    [g EXCEPT !.highscore = g.score]

\* ItrikSurfers.game_over_screen: the high score is saved
game_over_screen(g) ==
    IF g.score > g.highscore THEN [g EXCEPT !.highscore = g.score] ELSE g

\* ------------------------------------------------------------ main
VARIABLES
    game,       \* the ItrikSurfers object of main()
    in_start,   \* main's local in_start
    paused,     \* main's local paused
    pc,         \* where main is: "loop", "exit" (the while loop left), "raised"
    ticks       \* the number of update() calls made so far

vars == <<game, in_start, paused, pc, ticks>>

\* the most update() calls a run makes
MaxTicks == 22

\* the values load_highscore() may return at start-up
Highscores == {0, 300}

\* the draws of random.randint the model enumerates, within the source's ranges
ObstacleDraws == { [w |-> 50, h |-> 40, x |-> 100], [w |-> 70, h |-> 100, x |-> 20] }
CoinDraws == { [x |-> 30, y |-> GROUND_Y - 70], [x |-> 200, y |-> GROUND_Y - 180] }
PowerUpDraws == { [x |-> 200, y |-> GROUND_Y - 70], [x |-> 600, y |-> GROUND_Y - 180] }

\* the draws one update() of session g makes: one per spawn that fires
Draws(g) ==
    [ obstacle : IF SpawnsObstacle(g) THEN ObstacleDraws ELSE {[w |-> 0, h |-> 0, x |-> 0]},
      coin : IF SpawnsCoin(g) THEN CoinDraws ELSE {[x |-> 0, y |-> 0]},
      powerup : IF SpawnsPowerUp(g) THEN PowerUpDraws ELSE {[x |-> 0, y |-> 0]} ]

\* ------------------------------------------------------------ Sessions in play
\* States of the session that main() reaches in play, each the result of the
\* source's update() under the stated key presses and draws (a SPACE at tick t
\* is a jump() before the t-th update(); a draw k@t is the draw k of the spawn
\* in the t-th update()).  They start the model next to the power-up, the
\* obstacles and the coins that a run from construction meets only after
\* hundreds of ticks.
\* the session after 187 ticks of play
\* (SPACE at ticks []; draws cx@41: 170, else ow: 50, oh: 40, ox:
\* 100, cx: 30, cy: 340, px: 200, py: 340)
SnapB(h) ==
    [ running |-> TRUE, playing |-> TRUE,
      player |-> [y |-> 3460, dy |-> 0, on_ground |-> TRUE,
                 double_jump_allowed |-> TRUE, rect_y |-> 346, shield |-> 0],
      scroll_speed |-> 12187, spawn_timer |-> 28, coin_timer |-> 23, power_timer |-> 187,
      obstacles |-> << [id |-> 12053, x |-> 190, w |-> 50, h |-> 40, speed |-> 12187, passed |-> FALSE],
          [id |-> 12106, x |-> 508, w |-> 50, h |-> 40, speed |-> 12187, passed |-> FALSE],
          [id |-> 12159, x |-> 826, w |-> 50, h |-> 40, speed |-> 12187, passed |-> FALSE] >>,
      coins |-> << [id |-> 12041, x |-> 188, y |-> 340, speed |-> 12187, collected |-> FALSE],
          [id |-> 12082, x |-> 294, y |-> 340, speed |-> 12187, collected |-> FALSE],
          [id |-> 12123, x |-> 540, y |-> 340, speed |-> 12187, collected |-> FALSE],
          [id |-> 12164, x |-> 786, y |-> 340, speed |-> 12187, collected |-> FALSE] >>,
      powerups |-> <<>>,
      score |-> 0, distance |-> 2261578, highscore |-> h, game_over |-> FALSE ]
\* the session after 1068 ticks of play
\* (SPACE at ticks [189, 242, 295, 348, 401, 454, 507, 560, 613, 666, 719,
\* 772, 824, 876, 928, 980, 1026]; draws px@901: 302, ox@896: 60,
\* cx@902: 84, cy@902: 370, ox@948: 32, cx@943: 60, else ow: 50,
\* oh: 40, ox: 100, cx: 30, cy: 340, px: 200, py: 340)
SnapC(h) ==
    [ running |-> TRUE, playing |-> TRUE,
      player |-> [y |-> 3460, dy |-> 0, on_ground |-> TRUE,
                 double_jump_allowed |-> TRUE, rect_y |-> 346, shield |-> 0],
      scroll_speed |-> 13068, spawn_timer |-> 16, coin_timer |-> 2, power_timer |-> 167,
      obstacles |-> << [id |-> 12896, x |-> -78, w |-> 50, h |-> 40, speed |-> 13068, passed |-> TRUE],
          [id |-> 12948, x |-> 206, w |-> 50, h |-> 40, speed |-> 13068, passed |-> FALSE],
          [id |-> 13000, x |-> 586, w |-> 50, h |-> 40, speed |-> 13068, passed |-> FALSE],
          [id |-> 13052, x |-> 898, w |-> 50, h |-> 40, speed |-> 13068, passed |-> FALSE] >>,
      coins |-> << [id |-> 12902, x |-> -18, y |-> 370, speed |-> 13068, collected |-> FALSE],
          [id |-> 12943, x |-> 204, y |-> 340, speed |-> 13068, collected |-> FALSE],
          [id |-> 12984, x |-> 420, y |-> 340, speed |-> 13068, collected |-> FALSE],
          [id |-> 13025, x |-> 666, y |-> 340, speed |-> 13068, collected |-> FALSE],
          [id |-> 13066, x |-> 912, y |-> 340, speed |-> 13068, collected |-> FALSE] >>,
      powerups |-> <<[id |-> 12901, x |-> 194, y |-> 340, speed |-> 13068, kind |-> "shield"]>>,
      score |-> 235, distance |-> 13386846, highscore |-> h, game_over |-> FALSE ]
\* the session after 1236 ticks of play
\* (SPACE at ticks [189, 242, 295, 348, 401, 454, 507, 560, 613, 666, 719,
\* 772, 824, 876, 928, 980, 1019]; draws px@901: 240, ox@896: 20,
\* ox@1104: 80, else ow: 50, oh: 40, ox: 100, cx: 30, cy: 340,
\* px: 200, py: 340)
SnapD1(h) ==
    [ running |-> TRUE, playing |-> TRUE,
      player |-> [y |-> 3460, dy |-> 0, on_ground |-> TRUE,
                 double_jump_allowed |-> TRUE, rect_y |-> 346, shield |-> 4],
      scroll_speed |-> 13236, spawn_timer |-> 28, coin_timer |-> 6, power_timer |-> 335,
      obstacles |-> << [id |-> 13104, x |-> 182, w |-> 50, h |-> 40, speed |-> 13236, passed |-> FALSE],
          [id |-> 13156, x |-> 514, w |-> 50, h |-> 40, speed |-> 13236, passed |-> FALSE],
          [id |-> 13208, x |-> 826, w |-> 50, h |-> 40, speed |-> 13236, passed |-> FALSE] >>,
      coins |-> << [id |-> 13148, x |-> 396, y |-> 340, speed |-> 13236, collected |-> FALSE],
          [id |-> 13189, x |-> 642, y |-> 340, speed |-> 13236, collected |-> FALSE],
          [id |-> 13230, x |-> 888, y |-> 340, speed |-> 13236, collected |-> FALSE] >>,
      powerups |-> <<>>,
      score |-> 285, distance |-> 15596466, highscore |-> h, game_over |-> FALSE ]
\* the session after 1236 ticks of play
\* (SPACE at ticks [189, 242, 295, 348, 401, 454, 507, 560, 613, 666, 719,
\* 772, 824, 876, 928, 980, 1019]; draws px@901: 240, ox@896: 20,
\* ox@1104: 86, else ow: 50, oh: 40, ox: 100, cx: 30, cy: 340,
\* px: 200, py: 340)
SnapD2(h) ==
    [ running |-> TRUE, playing |-> TRUE,
      player |-> [y |-> 3460, dy |-> 0, on_ground |-> TRUE,
                 double_jump_allowed |-> TRUE, rect_y |-> 346, shield |-> 4],
      scroll_speed |-> 13236, spawn_timer |-> 28, coin_timer |-> 6, power_timer |-> 335,
      obstacles |-> << [id |-> 13104, x |-> 188, w |-> 50, h |-> 40, speed |-> 13236, passed |-> FALSE],
          [id |-> 13156, x |-> 514, w |-> 50, h |-> 40, speed |-> 13236, passed |-> FALSE],
          [id |-> 13208, x |-> 826, w |-> 50, h |-> 40, speed |-> 13236, passed |-> FALSE] >>,
      coins |-> << [id |-> 13148, x |-> 396, y |-> 340, speed |-> 13236, collected |-> FALSE],
          [id |-> 13189, x |-> 642, y |-> 340, speed |-> 13236, collected |-> FALSE],
          [id |-> 13230, x |-> 888, y |-> 340, speed |-> 13236, collected |-> FALSE] >>,
      powerups |-> <<>>,
      score |-> 285, distance |-> 15596466, highscore |-> h, game_over |-> FALSE ]

\* the session after 1065 ticks of play: a tall obstacle and a high power-up
\* both reach the player at tick 1075
\* (SPACE at ticks [189, 242, 295, 348, 401, 454, 507, 560, 613, 666, 719,
\* 772, 824, 876, 928, 980, 1032]; draws px@901: 326, py@901: 250,
\* ox@948: 32, oh@948: 100, else ow: 50, oh: 40, ox: 100, cx: 30, cy: 340,
\* px: 200, py: 340)
SnapE(h) ==
    [ running |-> TRUE, playing |-> TRUE,
      player |-> [y |-> 3375, dy |-> 146, on_ground |-> FALSE,
                 double_jump_allowed |-> TRUE, rect_y |-> 337, shield |-> 0],
      scroll_speed |-> 13065, spawn_timer |-> 13, coin_timer |-> 40, power_timer |-> 164,
      obstacles |-> << [id |-> 12896, x |-> -20, w |-> 50, h |-> 40, speed |-> 13065, passed |-> TRUE],
          [id |-> 12948, x |-> 224, w |-> 50, h |-> 100, speed |-> 13065, passed |-> FALSE],
          [id |-> 13000, x |-> 604, w |-> 50, h |-> 40, speed |-> 13065, passed |-> FALSE],
          [id |-> 13052, x |-> 916, w |-> 50, h |-> 40, speed |-> 13065, passed |-> FALSE] >>,
      coins |-> << [id |-> 12943, x |-> 192, y |-> 340, speed |-> 13065, collected |-> FALSE],
          [id |-> 12984, x |-> 438, y |-> 340, speed |-> 13065, collected |-> FALSE],
          [id |-> 13025, x |-> 684, y |-> 340, speed |-> 13065, collected |-> FALSE] >>,
      powerups |-> <<[id |-> 12901, x |-> 236, y |-> 250, speed |-> 13065, kind |-> "shield"]>>,
      score |-> 245, distance |-> 13347645, highscore |-> h, game_over |-> FALSE ]

\* the session after 1130 ticks of play: the play of SnapC with no SPACE after
\* tick 1026; the shield picked up at tick 1071 destroyed an obstacle at tick
\* 1075 and the next obstacle reaches the player at tick 1138
SnapF(h) ==
    [ running |-> TRUE, playing |-> TRUE,
      player |-> [y |-> 3460, dy |-> 0, on_ground |-> TRUE,
                 double_jump_allowed |-> TRUE, rect_y |-> 346, shield |-> 121],
      scroll_speed |-> 13130, spawn_timer |-> 26, coin_timer |-> 23, power_timer |-> 229,
      obstacles |-> << [id |-> 13000, x |-> 214, w |-> 50, h |-> 40, speed |-> 13130, passed |-> FALSE],
          [id |-> 13052, x |-> 526, w |-> 50, h |-> 40, speed |-> 13130, passed |-> FALSE],
          [id |-> 13104, x |-> 838, w |-> 50, h |-> 40, speed |-> 13130, passed |-> FALSE] >>,
      coins |-> << [id |-> 13025, x |-> 294, y |-> 340, speed |-> 13130, collected |-> FALSE],
          [id |-> 13066, x |-> 540, y |-> 340, speed |-> 13130, collected |-> FALSE],
          [id |-> 13107, x |-> 786, y |-> 340, speed |-> 13130, collected |-> FALSE] >>,
      powerups |-> <<>>,
      score |-> 255, distance |-> 14199015, highscore |-> h, game_over |-> FALSE ]

\* the session after 893 ticks of play, the play of SnapC: an obstacle is
\* spawned at tick 896, the first power-up at tick 901, a coin at tick 902
SnapG(h) ==
    [ running |-> TRUE, playing |-> TRUE,
      player |-> [y |-> 2119, dy |-> 2, on_ground |-> FALSE,
                 double_jump_allowed |-> TRUE, rect_y |-> 211, shield |-> 0],
      scroll_speed |-> 12893, spawn_timer |-> 49, coin_timer |-> 32, power_timer |-> 893,
      obstacles |-> << [id |-> 12740, x |-> 76, w |-> 50, h |-> 40, speed |-> 12893, passed |-> FALSE],
          [id |-> 12792, x |-> 388, w |-> 50, h |-> 40, speed |-> 12893, passed |-> FALSE],
          [id |-> 12844, x |-> 700, w |-> 50, h |-> 40, speed |-> 12893, passed |-> FALSE] >>,
      coins |-> << [id |-> 12779, x |-> 240, y |-> 340, speed |-> 12893, collected |-> FALSE],
          [id |-> 12820, x |-> 486, y |-> 340, speed |-> 12893, collected |-> FALSE],
          [id |-> 12861, x |-> 732, y |-> 340, speed |-> 12893, collected |-> FALSE] >>,
      powerups |-> <<>>,
      score |-> 205, distance |-> 11115171, highscore |-> h, game_over |-> FALSE ]

\* the session after 1091 ticks of play: the power-up spawned at tick 901 was
\* too high to be picked up and leaves the screen at tick 1097
\* (SPACE at ticks [189, 242, 295, 348, 401, 454, 507, 560, 613, 666, 719,
\* 772, 824, 876, 928, 980, 1032, 1084]; draws px@901: 230, py@901: 230,
\* else ow: 50, oh: 40, ox: 100, cx: 30, cy: 340)
SnapH(h) ==
    [ running |-> TRUE, playing |-> TRUE,
      player |-> [y |-> 2504, dy |-> -88, on_ground |-> FALSE,
                 double_jump_allowed |-> TRUE, rect_y |-> 250, shield |-> 0],
      scroll_speed |-> 13091, spawn_timer |-> 39, coin_timer |-> 25, power_timer |-> 190,
      obstacles |-> << [id |-> 12948, x |-> 136, w |-> 50, h |-> 40, speed |-> 13091, passed |-> FALSE],
          [id |-> 13000, x |-> 448, w |-> 50, h |-> 40, speed |-> 13091, passed |-> FALSE],
          [id |-> 13052, x |-> 760, w |-> 50, h |-> 40, speed |-> 13091, passed |-> FALSE] >>,
      coins |-> << [id |-> 12984, x |-> 282, y |-> 340, speed |-> 13091, collected |-> FALSE],
          [id |-> 13025, x |-> 528, y |-> 340, speed |-> 13091, collected |-> FALSE],
          [id |-> 13066, x |-> 774, y |-> 340, speed |-> 13091, collected |-> FALSE] >>,
      powerups |-> <<[id |-> 12901, x |-> -16, y |-> 230, speed |-> 13091, kind |-> "shield"]>>,
      score |-> 255, distance |-> 13687686, highscore |-> h, game_over |-> FALSE ]

\* the sessions in play the model starts from
Sessions(h) ==
    {SnapB(h), SnapC(h), SnapD1(h), SnapD2(h), SnapE(h), SnapF(h), SnapG(h),
     SnapH(h)}

\* main() up to its loop, or main() in its loop with a session in play
Init ==
    /\ \E h \in Highscores :
         \/ game = GameInit(h) /\ in_start = TRUE
         \/ game \in Sessions(h) /\ in_start = FALSE
    /\ paused = FALSE
    /\ pc = "loop"
    /\ ticks = 0

\* whether the key handler is in its game-over branch
InGameOver == ~game.playing /\ game.game_over

\* event.type == pygame.QUIT
EventQuit ==
    /\ pc = "loop"
    /\ game' = [game EXCEPT !.running = FALSE]
    /\ UNCHANGED <<in_start, paused, pc, ticks>>

\* KEYDOWN of K_SPACE: start the game, or jump
KeySpace ==
    /\ pc = "loop"
    /\ IF in_start
         THEN /\ game' = [game EXCEPT !.playing = TRUE]
              /\ in_start' = FALSE
         ELSE /\ game' = IF InGameOver THEN game
                         ELSE [game EXCEPT !.player = PlayerJump(@)]
              /\ UNCHANGED in_start
    /\ UNCHANGED <<paused, pc, ticks>>

\* K_p toggling the pause whatever the mode
KeyPAnywhere ==
    /\ pc = "loop"
    /\ paused' = ~paused
    /\ UNCHANGED <<game, in_start, pc, ticks>>

\* KEYDOWN of K_p: toggle the pause
KeyP ==
    /\ pc = "loop"
    /\ paused' = IF ~in_start /\ ~InGameOver THEN ~paused ELSE paused
    /\ UNCHANGED <<game, in_start, pc, ticks>>

\* K_r restarting whatever the mode
KeyRAnywhere ==
    /\ pc = "loop"
    /\ game' = IF ~in_start
                 THEN [reset(game) EXCEPT !.playing = TRUE]
                 ELSE game
    /\ UNCHANGED <<in_start, paused, pc, ticks>>

\* KEYDOWN of K_r: restart after a game over
KeyR ==
    /\ pc = "loop"
    /\ game' = IF ~in_start /\ InGameOver
                 THEN [reset(game) EXCEPT !.playing = TRUE]
                 ELSE game
    /\ UNCHANGED <<in_start, paused, pc, ticks>>

\* KEYDOWN of K_q: quit after a game over
KeyQ ==
    /\ pc = "loop"
    /\ game' = IF ~in_start /\ InGameOver
                 THEN [game EXCEPT !.running = FALSE]
                 ELSE game
    /\ UNCHANGED <<in_start, paused, pc, ticks>>

\* the rest of an iteration on the start screen: start_screen(); continue
FrameStart ==
    /\ pc = "loop"
    /\ in_start
    /\ pc' = IF game.running THEN "loop" ELSE "exit"
    /\ UNCHANGED <<game, in_start, paused, ticks>>

\* the rest of an iteration while paused: the overlay; continue
FramePaused ==
    /\ pc = "loop"
    /\ ~in_start
    /\ paused
    /\ pc' = IF game.running THEN "loop" ELSE "exit"
    /\ UNCHANGED <<game, in_start, paused, ticks>>

\* the rest of an iteration otherwise: update(), draw, game_over_screen()
FramePlay ==
    /\ pc = "loop"
    /\ ~in_start
    /\ ~paused
    /\ game.playing => ticks < MaxTicks
    /\ \E d \in Draws(game) :
         LET u == update(game, d)
         IN  /\ game' = IF u.raised THEN u.g
                        ELSE IF u.g.game_over THEN game_over_screen(u.g) ELSE u.g
             /\ pc' = IF u.raised THEN "raised"
                      ELSE IF game.running THEN "loop" ELSE "exit"
    /\ ticks' = IF game.playing THEN ticks + 1 ELSE ticks
    /\ UNCHANGED <<in_start, paused>>

Next ==
    \/ EventQuit
    \/ KeySpace
    \/ KeyP
    \/ KeyR
    \/ KeyQ
    \/ FrameStart
    \/ FramePaused
    \/ FramePlay

Spec == Init /\ [][Next]_vars

\* ------------------------------------------------------------ Player alone
\* The Player object driven directly: any interleaving of update() and jump().

\* the largest shield timer a Player starts this specification with
StartShield == 2

InitPlayer ==
    /\ \E s \in 0..StartShield : game = [GameInit(0) EXCEPT !.player.shield = s]
    /\ in_start = FALSE
    /\ paused = FALSE
    /\ pc = "loop"
    /\ ticks = 0

\* a call of Player.update
PlayerTick ==
    /\ game' = [game EXCEPT !.player = PlayerUpdate(@)]
    /\ UNCHANGED <<in_start, paused, pc, ticks>>

\* a call of Player.jump
PlayerJumpCall ==
    /\ game' = [game EXCEPT !.player = PlayerJump(@)]
    /\ UNCHANGED <<in_start, paused, pc, ticks>>

NextPlayer ==
    \/ PlayerTick
    \/ PlayerJumpCall

SpecPlayer == InitPlayer /\ [][NextPlayer]_vars

\* The Player whose update() keeps being executed: the tick of main's loop
\* runs again and again, whatever jump() calls come in between.
SpecPlayerTicking == InitPlayer /\ [][NextPlayer]_vars /\ WF_vars(PlayerTick)

\* ------------------------------------------------------------ Claims
\* a frame of main that calls update() on a playing session
PlayTick == FramePlay /\ game.playing

\* the shield timer during the entity loops of this tick: Player.update has
\* counted it down, the power-up loop has not run yet
ShieldAtTest == IF game.player.shield > 0 THEN game.player.shield - 1 ELSE 0

\* the rectangle of ob when the obstacle loop of this tick tests it
TestedRect(ob) ==
    ObstacleRect([ob EXCEPT !.x = @ - IntSpeed(game'.scroll_speed)])

\* the obstacles of the list whose rectangle overlaps the player's when tested
Hits ==
    {i \in 1..Len(game.obstacles) :
        colliderect(TestedRect(game.obstacles[i]), PlayerRect(game'.player))}

\* C1: in update(), for every obstacle whose rectangle overlaps the player's
\* when it is tested: with the shield > 0 at that test the obstacle is removed
\* from the list, playing stays true and game_over false; with the shield 0
\* playing becomes false and game_over true.  No obstacle left in the list
\* overlaps the player unless the game ended, and without an overlap the
\* game goes on.
C1_CollisionOutcome ==
    [][PlayTick =>
         /\ \A i \in Hits :
              IF ShieldAtTest > 0
                THEN /\ ~Has(game'.obstacles, game.obstacles[i].id)
                     /\ game'.playing
                     /\ ~game'.game_over
                ELSE /\ ~game'.playing
                     /\ game'.game_over
         /\ \A j \in 1..Len(game'.obstacles) :
              colliderect(ObstacleRect(game'.obstacles[j]), PlayerRect(game'.player))
                => ShieldAtTest = 0 /\ ~game'.playing /\ game'.game_over
         /\ Hits = {} => game'.playing /\ ~game'.game_over]_vars

\* C1 witness: the game ended on an obstacle that overlaps the unshielded player
C1_EndedOnObstacle ==
    /\ InGameOver
    /\ game.player.shield = 0
    /\ \E j \in 1..Len(game.obstacles) :
         colliderect(ObstacleRect(game.obstacles[j]), PlayerRect(game.player))

\* C2 as stated: in every reachable state of the player, jumps between ticks
\* included, y <= GROUND_Y - height, and on_ground holds if and only if y equals
\* GROUND_Y - height.
C2_GroundedIffAtGround ==
    /\ game.player.y <= (GROUND_Y - PLAYER_HEIGHT) * TENTH
    /\ game.player.on_ground <=> game.player.y = (GROUND_Y - PLAYER_HEIGHT) * TENTH

\* C2 as amended: y <= GROUND_Y - height in every state and on_ground implies
\* y = GROUND_Y - height; after every Player.update() on_ground holds if and only
\* if y equals GROUND_Y - height.  (A jump() from the ground clears on_ground
\* while y still equals GROUND_Y - height, until the next update().)
C2_GroundedAfterUpdate ==
    /\ [](/\ game.player.y <= (GROUND_Y - PLAYER_HEIGHT) * TENTH
          /\ game.player.on_ground => game.player.y = (GROUND_Y - PLAYER_HEIGHT) * TENTH)
    /\ [][PlayerTick =>
            (game'.player.on_ground <=>
               game'.player.y = (GROUND_Y - PLAYER_HEIGHT) * TENTH)]_vars

\* C2 witness: a jump() was issued on the ground and no update() has run since
C2_JumpedBetweenTicks ==
    /\ ~game.player.on_ground
    /\ game.player.y = (GROUND_Y - PLAYER_HEIGHT) * TENTH
    /\ game.player.dy = JUMP_STRENGTH

\* C3: from a grounded player, a jump() sets the velocity to jump_strength and
\* leaves the ground with the double jump allowed; a jump() made while airborne
\* with the double jump allowed sets the velocity to 0.9 * jump_strength and
\* uses the double jump up; every further jump() before the next landing
\* changes nothing of the player; an update() that does not land starts from
\* an airborne player and leaves double_jump_allowed as it was.  So at most
\* two jump() calls take effect between two consecutive landings.
C3_AtMostTwoJumps ==
    [][/\ PlayerJumpCall =>
            /\ game.player.on_ground =>
                 /\ game'.player.dy = JUMP_STRENGTH
                 /\ ~game'.player.on_ground
                 /\ game'.player.double_jump_allowed
            /\ ~game.player.on_ground /\ game.player.double_jump_allowed =>
                 /\ TENTH * game'.player.dy = 9 * JUMP_STRENGTH
                 /\ ~game'.player.on_ground
                 /\ ~game'.player.double_jump_allowed
            /\ ~game.player.on_ground /\ ~game.player.double_jump_allowed =>
                 game'.player = game.player
            /\ game'.player.y = game.player.y
       /\ PlayerTick /\ ~game'.player.on_ground =>
            /\ ~game.player.on_ground
            /\ game'.player.double_jump_allowed = game.player.double_jump_allowed]_vars

\* C3 witness: airborne after a double jump, where a third jump() is a no-op
C3_DoubleJumpUsed ==
    /\ ~game.player.on_ground
    /\ ~game.player.double_jump_allowed
    /\ TENTH * game.player.dy = 9 * JUMP_STRENGTH
    /\ game.player.y < (GROUND_Y - PLAYER_HEIGHT) * TENTH

\* the obstacles whose right edge gets left of the player's x in this tick
Crossing ==
    {i \in 1..Len(game.obstacles) :
        /\ ObstacleRight(game.obstacles[i]) >= PLAYER_X
        /\ TestedRect(game.obstacles[i]).x + TestedRect(game.obstacles[i]).w < PLAYER_X}

\* the rectangle of coin c when the coin loop of this tick tests it
TestedCoinRect(c) ==
    CoinRect([c EXCEPT !.x = @ - IntSpeed(game'.scroll_speed)])

\* the coins of the list whose rectangle overlaps the player's when tested
CoinHits ==
    {i \in 1..Len(game.coins) :
        colliderect(TestedCoinRect(game.coins[i]), PlayerRect(game'.player))}

\* what update() adds to the score in this tick
ScoreGain ==
    PASS_SCORE * Cardinality(Crossing) + COIN_SCORE * Cardinality(CoinHits)
      + game'.scroll_speed \div (BONUS_DIVISOR * SPEED_UNIT)

\* C4: an obstacle of the list is marked passed exactly when its right edge is
\* strictly left of the player's x (120); a tick adds 5 to the score for each
\* obstacle whose right edge gets left of 120 in that tick, and for no other
\* obstacle; the obstacle is then marked passed, and since obstacles only move
\* left no obstacle contributes 5 twice.
C4_PassedOnce ==
    /\ [](\A i \in 1..Len(game.obstacles) :
            game.obstacles[i].passed <=> ObstacleRight(game.obstacles[i]) < PLAYER_X)
    /\ [][PlayTick =>
            /\ game'.score = game.score + ScoreGain
            /\ \A i \in 1..Len(game.obstacles) :
                 \A j \in 1..Len(game'.obstacles) :
                    game'.obstacles[j].id = game.obstacles[i].id =>
                      /\ game'.obstacles[j].x < game.obstacles[i].x
                      /\ i \in Crossing => game'.obstacles[j].passed
                      /\ game.obstacles[i].passed => game'.obstacles[j].passed]_vars

\* C4 witness: the player avoided an obstacle of width 50 spawned at x = 1000
\* at speed 6; its right edge is just below 120, it is passed and the score is
\* the 5 of this obstacle and the 10 of the one coin collected on the way
C4_FirstObstaclePassed ==
    /\ game.playing
    /\ game.score = PASS_SCORE + COIN_SCORE
    /\ game.scroll_speed \div SPEED_UNIT = 6
    /\ \E i \in 1..Len(game.obstacles) :
         /\ game.obstacles[i].w = 50
         /\ game.obstacles[i].passed
         /\ ObstacleRight(game.obstacles[i]) < PLAYER_X
         /\ ObstacleRight(game.obstacles[i]) >= PLAYER_X - 6

\* C5: in the tick in which a coin's rectangle first overlaps the player's the
\* coin is removed from the coin list and 10 is added to the score for it, once;
\* the list never holds a collected coin, a coin of the list does not overlap
\* the player while the session plays, and a removed coin never comes back, so
\* no later tick adds score for it.
C5_CoinOnce ==
    /\ [](\A i \in 1..Len(game.coins) :
            /\ ~game.coins[i].collected
            /\ game.playing =>
                 ~colliderect(CoinRect(game.coins[i]), PlayerRect(game.player))
            /\ \A j \in 1..Len(game.coins) :
                 game.coins[i].id = game.coins[j].id => i = j)
    /\ [][PlayTick =>
            /\ \A i \in CoinHits : ~Has(game'.coins, game.coins[i].id)
            /\ game'.score - game.score - PASS_SCORE * Cardinality(Crossing)
                 = COIN_SCORE * Cardinality(CoinHits)
            /\ \A j \in 1..Len(game'.coins) :
                 \/ Has(game.coins, game'.coins[j].id)
                 \/ /\ game'.coins[j].id = game'.scroll_speed
                    /\ game'.coin_timer = 0]_vars

\* C5 witness: one coin collected and nothing else scored
C5_OneCoinCollected ==
    /\ game.playing
    /\ game.score = COIN_SCORE
    /\ \A i \in 1..Len(game.obstacles) : ~game.obstacles[i].passed

\* the restart of main: K_r pressed in GameOver
Restart == KeyR /\ ~in_start /\ InGameOver

\* C6 as stated: the scroll speed never decreases while the session is playing
\* and no step of a frame changes it while the game is paused or in GameOver.
C6_SpeedNeverReset ==
    [][/\ game.playing => game'.scroll_speed >= game.scroll_speed
       /\ paused \/ InGameOver => game'.scroll_speed = game.scroll_speed]_vars

\* C6 as amended: the scroll speed never decreases while the session is
\* playing, every update() of a playing session raises it by the difficulty
\* increment, and it is unchanged by every frame in which the game is paused
\* or in GameOver, except the GameOver frame in which restart is pressed:
\* reset() sets it back to 6.0.
C6_SpeedResetOnlyByRestart ==
    [][/\ game.playing => game'.scroll_speed >= game.scroll_speed
       /\ PlayTick => game'.scroll_speed = game.scroll_speed + DIFFICULTY_INCREMENT
       /\ (paused \/ InGameOver) /\ ~Restart =>
            game'.scroll_speed = game.scroll_speed
       /\ Restart => game'.scroll_speed = 6 * SPEED_UNIT]_vars

\* C6 witness: a restarted session that has not run an update() yet, its speed
\* back at 6.0 after ticks at a higher speed
C6_RestartedAtInitialSpeed ==
    /\ game.playing
    /\ ~in_start
    /\ ticks > 0
    /\ game.scroll_speed = 6 * SPEED_UNIT

\* C7: the stored high score changes only in a frame that ends in GameOver
\* with the score strictly above the stored value, and it is then set to that
\* score; such a frame always writes it; every other step leaves it unchanged.
\* In GameOver the stored value is at least the score, so the frames of a
\* GameOver episode after its first do not write it again, and it never
\* decreases.  (self.highscore and the file written by save_highscore are one
\* value here.)
C7_HighscoreWrittenOnce ==
    /\ [](InGameOver => game.highscore >= game.score)
    /\ [][/\ game'.highscore # game.highscore =>
               /\ FramePlay
               /\ game'.game_over /\ ~game'.playing
               /\ game'.score > game.highscore
               /\ game'.highscore = game'.score
          /\ FramePlay /\ game'.game_over /\ game'.score > game.highscore =>
               game'.highscore = game'.score
          /\ InGameOver => game'.highscore = game.highscore
          /\ game'.highscore >= game.highscore]_vars

\* C7 witness: a GameOver whose score was written as the new high score
C7_NewHighscore ==
    /\ InGameOver
    /\ game.score > 0
    /\ game.highscore = game.score
    /\ game.highscore \notin Highscores

\* the session state that a pause is to freeze
Session(g) ==
    <<g.player, g.obstacles, g.coins, g.powerups, g.score, g.distance,
      g.scroll_speed, g.spawn_timer, g.coin_timer, g.power_timer>>

\* C8: while the game is paused, from the frame pause is toggled on until the
\* frame it is toggled off, the player (position, velocity, jump flags, shield
\* timer), the entity lists, score, distance, scroll speed and spawn timers are
\* unchanged, whatever keys are pressed in between.
C8_FrozenWhilePaused ==
    [][paused /\ paused' => Session(game') = Session(game)]_vars

\* the rectangle of power-up p when the power-up loop of this tick tests it
TestedPowerUpRect(p) ==
    PowerUpRect([p EXCEPT !.x = @ - IntSpeed(game'.scroll_speed)])

\* the power-ups of the list whose rectangle overlaps the player's when tested
PowerUpHits ==
    {i \in 1..Len(game.powerups) :
        colliderect(TestedPowerUpRect(game.powerups[i]), PlayerRect(game'.player))}

\* C9: a power-up whose rectangle overlaps the player's in update() is removed
\* from the power-up list in that tick and, every power-up being a shield, the
\* shield timer is then 180 whatever it was; in a tick without a pickup the
\* timer goes down by exactly 1 while positive and stays 0 otherwise; it is
\* always within 0..180.
C9_ShieldPickup ==
    /\ [](/\ game.player.shield \in 0..180
          /\ \A i \in 1..Len(game.powerups) : game.powerups[i].kind = "shield")
    /\ [][PlayTick =>
            /\ \A i \in PowerUpHits : ~Has(game'.powerups, game.powerups[i].id)
            /\ game'.player.shield = IF PowerUpHits # {} THEN 180 ELSE ShieldAtTest
            /\ \A j \in 1..Len(game'.powerups) :
                 ~colliderect(PowerUpRect(game'.powerups[j]), PlayerRect(game'.player))]_vars

\* C9 witness: the tick of a pickup has just run, the timer is at its full 180
C9_ShieldFull ==
    /\ game.player.shield = 180
    /\ game.powerups = <<>>
    /\ game.power_timer > 0

\* C10: after reset(), called by the restart from any GameOver the session
\* reaches, the player is a fresh grounded player (y = GROUND_Y - height,
\* velocity 0, on the ground, double jump allowed, shield 0), the obstacle,
\* coin and power-up lists are empty, score, distance and the three spawn
\* timers are 0, the scroll speed is 6.0 and game_over is false; the stored
\* high score is left unchanged.
C10_ResetFresh ==
    [][Restart =>
         /\ game'.player.y = (GROUND_Y - PLAYER_HEIGHT) * TENTH
         /\ game'.player.rect_y = GROUND_Y - PLAYER_HEIGHT
         /\ game'.player.dy = 0
         /\ game'.player.on_ground
         /\ game'.player.double_jump_allowed
         /\ game'.player.shield = 0
         /\ game'.obstacles = <<>>
         /\ game'.coins = <<>>
         /\ game'.powerups = <<>>
         /\ game'.score = 0
         /\ game'.distance = 0
         /\ game'.spawn_timer = 0
         /\ game'.coin_timer = 0
         /\ game'.power_timer = 0
         /\ game'.scroll_speed = 6 * SPEED_UNIT
         /\ ~game'.game_over
         /\ game'.highscore = game.highscore]_vars

\* C10 witness: a session restarted after a game over that set a new high
\* score: everything is fresh, the high score is the one of the ended session
C10_RestartedKeepsHighscore ==
    /\ game.playing
    /\ ticks > 0
    /\ game.score = 0
    /\ game.distance = 0
    /\ game.obstacles = <<>> /\ game.coins = <<>> /\ game.powerups = <<>>
    /\ game.highscore > 0
    /\ game.highscore \notin Highscores

\* the mode of the controller, as main's branches tell them apart
Mode ==
    IF in_start THEN "Start"
    ELSE IF InGameOver THEN "GameOver"
    ELSE IF paused THEN "Paused"
    ELSE "Playing"

\* C11: the mode changes only Start -> Playing by the start key, Playing ->
\* Paused and Paused -> Playing by the pause key, Playing -> GameOver by an
\* unshielded collision in update(), and GameOver -> Playing by the restart
\* key, which resets the session; Start is never re-entered; the restart and
\* quit keys change neither the session nor the running flag in a mode other
\* than GameOver.
C11_ModeTransitions ==
    [][/\ Mode' # Mode =>
            \/ Mode = "Start" /\ Mode' = "Playing" /\ KeySpace
            \/ Mode = "Playing" /\ Mode' = "Paused" /\ KeyP
            \/ Mode = "Paused" /\ Mode' = "Playing" /\ KeyP
            \/ /\ Mode = "Playing" /\ Mode' = "GameOver"
               /\ PlayTick /\ Hits # {} /\ ShieldAtTest = 0
            \/ /\ Mode = "GameOver" /\ Mode' = "Playing"
               /\ Restart
               /\ Session(game') = Session(GameInit(0))
       /\ in_start' => in_start
       /\ (KeyR \/ KeyQ) /\ Mode # "GameOver" =>
            /\ Session(game') = Session(game)
            /\ game'.running = game.running
            /\ game'.playing = game.playing /\ game'.game_over = game.game_over]_vars

\* C11 witness: Paused, in a session restarted after a game over
C11_PausedAfterRestart ==
    /\ Mode = "Paused"
    /\ ticks > 0
    /\ game.distance = 0
    /\ game.highscore \notin Highscores

\* C12: update() changes nothing of a session that is not playing, whatever
\* its spawns would draw; and from the end of the tick that sets game_over
\* until the restart key, every step of a frame leaves the player, the entity
\* lists, score, distance, scroll speed and spawn timers unchanged and the
\* game over.
C12_FrozenInGameOver ==
    /\ [](~game.playing =>
            \A d \in Draws(game) : update(game, d) = [g |-> game, raised |-> FALSE])
    /\ [][InGameOver /\ ~Restart =>
            /\ Session(game') = Session(game)
            /\ game'.game_over /\ ~game'.playing
            /\ game'.highscore = game.highscore]_vars

\* C12 witness: main left its loop in GameOver, the ended session as it was
C12_LeftInGameOver ==
    /\ InGameOver
    /\ pc = "exit"
    /\ game.obstacles # <<>>
    /\ game.distance > 0

\* C13: a tick in which obstacles hit the shielded player removes each of them
\* and no other obstacle that is still on screen, does not end the game, and
\* leaves the shield timer as Player.update counted it down (or at 180 after a
\* pickup in the same tick): the collision spends nothing of the shield.
C13_ShieldSurvivesHit ==
    [][PlayTick /\ Hits # {} /\ ShieldAtTest > 0 =>
         /\ game'.player.shield = IF PowerUpHits # {} THEN 180 ELSE ShieldAtTest
         /\ game'.playing /\ ~game'.game_over
         /\ \A i \in 1..Len(game.obstacles) :
              Has(game'.obstacles, game.obstacles[i].id) <=>
                /\ i \notin Hits
                /\ TestedRect(game.obstacles[i]).x + game.obstacles[i].w >= -50]_vars

\* C13 witness: the shield picked up at tick 1071 still runs after it destroyed
\* a second obstacle, the one spawned at tick 1000 (speed 6.5), which is gone
\* from the list while the obstacle spawned after it is there
C13_ShieldLeftAfterHit ==
    /\ game.playing
    /\ game.player.shield \in 1..120
    /\ ~Has(game.obstacles, 13000)
    /\ Has(game.obstacles, 13052)

\* what a tick at the new scroll speed does to the entities that stay in
\* their lists, each moved left by `step` pixels: an entity of the old list
\* has its x lowered by step and its vertical position kept, an entity spawned
\* in this tick is step left of where it was spawned
MovedBy(step) ==
    /\ \A j \in 1..Len(game'.obstacles) :
         LET ob == game'.obstacles[j]
         IN  \/ \E i \in 1..Len(game.obstacles) :
                  /\ game.obstacles[i].id = ob.id
                  /\ ob.x = game.obstacles[i].x - step
                  /\ ob.h = game.obstacles[i].h /\ ob.w = game.obstacles[i].w
             \/ /\ ~Has(game.obstacles, ob.id)
                /\ \E d \in ObstacleDraws : ob.x = WIDTH + d.x - step
    /\ \A j \in 1..Len(game'.coins) :
         LET c == game'.coins[j]
         IN  \/ \E i \in 1..Len(game.coins) :
                  /\ game.coins[i].id = c.id
                  /\ c.x = game.coins[i].x - step
                  /\ c.y = game.coins[i].y
             \/ /\ ~Has(game.coins, c.id)
                /\ \E d \in CoinDraws : c.x = WIDTH + d.x - step /\ c.y = d.y
    /\ \A j \in 1..Len(game'.powerups) :
         LET q == game'.powerups[j]
         IN  \/ \E i \in 1..Len(game.powerups) :
                  /\ game.powerups[i].id = q.id
                  /\ q.x = game.powerups[i].x - step
                  /\ q.y = game.powerups[i].y
             \/ /\ ~Has(game.powerups, q.id)
                /\ \E d \in PowerUpDraws : q.x = WIDTH + d.x - step /\ q.y = d.y

\* C14 as stated: in every update() tick of a playing session every obstacle,
\* coin and power-up, old or newly spawned, moves left by exactly round(s)
\* pixels, s the scroll speed of the tick after the increment, its vertical
\* position unchanged.
C14_MovesByRoundedSpeed ==
    [][PlayTick =>
         MovedBy((2 * game'.scroll_speed + SPEED_UNIT) \div (2 * SPEED_UNIT))]_vars

\* C14 as amended: every obstacle, coin and power-up, old or newly spawned,
\* moves left by exactly int(s) pixels, the scroll speed after the increment
\* truncated to its integer part, its vertical position unchanged.
C14_MovesByTruncatedSpeed ==
    [][PlayTick => MovedBy(game'.scroll_speed \div SPEED_UNIT)]_vars

\* C14 witness: a tick has run at a speed above 6.5, where round(s) is 7 and
\* int(s) is 6, and moved an obstacle, a coin and a power-up
C14_MovedAboveSixAndAHalf ==
    /\ ticks > 0
    /\ 2 * game.scroll_speed > 13 * SPEED_UNIT
    /\ \E i \in 1..Len(game.obstacles) : game.obstacles[i].speed = game.scroll_speed
    /\ \E i \in 1..Len(game.coins) : game.coins[i].speed = game.scroll_speed
    /\ \E i \in 1..Len(game.powerups) : game.powerups[i].speed = game.scroll_speed

\* the largest scroll speed, in units of 0.0005, the spawn threshold is
\* examined at: 18.0, past the speed 17.3335 where the threshold reaches 18
MaxSpeed == 36000

\* the spawn threshold never increases as the speed grows, and stays within
\* its floor 18 and its value 52 at the initial speed
ThresholdShrinks ==
    \A s \in INITIAL_SPEED..MaxSpeed :
        /\ SpawnThreshold(s + 1) <= SpawnThreshold(s)
        /\ SpawnThreshold(s) \in 18..52

\* the entities of list new that list old does not hold
Spawned(old, new) == {j \in 1..Len(new) : ~Has(old, new[j].id)}

\* C15: a tick of update() spawns an obstacle exactly when the obstacle counter
\* plus one exceeds max(18, 70 - floor(3 * speed)), a coin exactly when the
\* coin counter plus one exceeds 40, a power-up exactly when its counter plus
\* one exceeds 900, at most one of each; a counter that fired is 0 after the
\* tick and the others are one higher.  After every tick the obstacle counter
\* is at most the threshold, the coin counter at most 40, the power-up counter
\* at most 900, and the threshold never increases as the speed grows.
C15_SpawnCounters ==
    /\ [](/\ ThresholdShrinks
          /\ game.spawn_timer \in 0..SpawnThreshold(game.scroll_speed)
          /\ game.coin_timer \in 0..40
          /\ game.power_timer \in 0..900)
    /\ [][PlayTick =>
            LET t == IF 70 - (3 * game'.scroll_speed) \div SPEED_UNIT > 18
                       THEN 70 - (3 * game'.scroll_speed) \div SPEED_UNIT ELSE 18
                no == Cardinality(Spawned(game.obstacles, game'.obstacles))
                nc == Cardinality(Spawned(game.coins, game'.coins))
                np == Cardinality(Spawned(game.powerups, game'.powerups))
            IN  /\ no = IF game.spawn_timer + 1 > t THEN 1 ELSE 0
                /\ nc = IF game.coin_timer + 1 > 40 THEN 1 ELSE 0
                /\ np = IF game.power_timer + 1 > 900 THEN 1 ELSE 0
                /\ game'.spawn_timer = IF no = 1 THEN 0 ELSE game.spawn_timer + 1
                /\ game'.coin_timer = IF nc = 1 THEN 0 ELSE game.coin_timer + 1
                /\ game'.power_timer = IF np = 1 THEN 0 ELSE game.power_timer + 1]_vars

\* C15 witness: the first power-up, spawned at tick 901, is in its list, and
\* the coin spawned one tick later in its own
C15_FirstPowerUpSpawned ==
    /\ game.playing
    /\ \E j \in 1..Len(game.powerups) : game.powerups[j].id = INITIAL_SPEED + 901
    /\ \E j \in 1..Len(game.coins) : game.coins[j].id = INITIAL_SPEED + 902
    /\ game.power_timer = game.coin_timer + 1
    /\ game.coin_timer < 5

\* the most entities a list is seen to hold
MaxEntities == 6

\* what a tick keeps in the lists when an obstacle goes once its right edge
\* is left of -50, a coin once its x plus cr is, a power-up once its x plus
\* pr is: an entity of the old list stays exactly if it is not that far left
\* and no collision removed it; an entity that stays has moved left by at
\* least 6 pixels
KeptUnlessLeftOf(cr, pr) ==
    LET step == game'.scroll_speed \div SPEED_UNIT
    IN  /\ step >= 6
        /\ \A i \in 1..Len(game.obstacles) :
             Has(game'.obstacles, game.obstacles[i].id) <=>
               /\ ObstacleRight(game.obstacles[i]) - step >= -50
               /\ ~(i \in Hits /\ ShieldAtTest > 0)
        /\ \A i \in 1..Len(game.coins) :
             Has(game'.coins, game.coins[i].id) <=>
               /\ game.coins[i].x - step + cr >= -50
               /\ i \notin CoinHits
        /\ \A i \in 1..Len(game.powerups) :
             Has(game'.powerups, game.powerups[i].id) <=>
               /\ game.powerups[i].x - step + pr >= -50
               /\ i \notin PowerUpHits

\* C16 as stated: an obstacle, a coin, a power-up is removed in the tick in
\* which its rightmost extent (the right edge, the centre plus the radius) is
\* more than 50 pixels left of the screen, collided or not, and stays in its
\* list until then unless a collision removes it.
C16_RemovedByRightmostExtent ==
    [][PlayTick => KeptUnlessLeftOf(10, 14)]_vars

\* C16 as amended: an obstacle is removed in the tick in which its right edge
\* is more than 50 pixels left of the screen, a coin or a power-up in the tick
\* in which its centre x is, collided or not; an entity that stays has moved
\* left by at least 6 pixels, so every spawned entity is removed after
\* finitely many ticks of play, and no list holds more than a few entities.
C16_RemovedOffscreen ==
    /\ [](/\ \A i \in 1..Len(game.obstacles) : ObstacleRight(game.obstacles[i]) >= -50
          /\ \A i \in 1..Len(game.coins) : game.coins[i].x >= -50
          /\ \A i \in 1..Len(game.powerups) : game.powerups[i].x >= -50
          /\ Len(game.obstacles) <= MaxEntities
          /\ Len(game.coins) <= MaxEntities
          /\ Len(game.powerups) <= MaxEntities)
    /\ [][PlayTick => KeptUnlessLeftOf(0, 0)]_vars

\* C16 witness: tick 1074 of the play of SnapC has run (its obstacle spawned
\* at tick 948 is 40 high): the obstacle spawned at tick 896 and the coin
\* spawned at tick 902, which the player missed, have left their lists
C16_LeftTheScreen ==
    /\ game.scroll_speed = INITIAL_SPEED + 1074
    /\ \E i \in 1..Len(game.obstacles) :
         game.obstacles[i].id = 12948 /\ game.obstacles[i].h = 40
    /\ ~Has(game.obstacles, 12896)
    /\ ~Has(game.coins, 12902)

\* C17: double_jump_allowed goes from false to true only in a Player.update()
\* that lands the player, y clamped to the ground, never through jump(); every
\* landing sets the vertical velocity to 0; and whenever on_ground is true
\* double_jump_allowed is true.
C17_DoubleJumpBackOnLanding ==
    /\ [](game.player.on_ground => game.player.double_jump_allowed)
    /\ [][/\ ~game.player.double_jump_allowed /\ game'.player.double_jump_allowed =>
               /\ PlayerTick
               /\ ~PlayerJumpCall
               /\ game'.player.on_ground
               /\ game'.player.y = (GROUND_Y - PLAYER_HEIGHT) * TENTH
          /\ PlayerTick /\ game'.player.on_ground =>
               /\ game'.player.dy = 0
               /\ game'.player.y = (GROUND_Y - PLAYER_HEIGHT) * TENTH
               /\ game'.player.double_jump_allowed]_vars

\* C17 witness: airborne with the double jump used, one update() from landing
C17_LandingAfterDoubleJump ==
    /\ ~game.player.on_ground
    /\ ~game.player.double_jump_allowed
    /\ game.player.y + game.player.dy + GRAVITY >= (GROUND_Y - PLAYER_HEIGHT) * TENTH

\* C18: update() never raises: main is never left through an exception; every
\* entity that the off-screen test of a tick removes is in its list when that
\* tick starts or is spawned by it, and no entity past the off-screen margin
\* overlaps the player, so the guarded removal after a collision never
\* targets an entity the same tick removed as off-screen.
C18_UpdateNeverRaises ==
    /\ [](pc # "raised")
    /\ [][PlayTick =>
            LET step == game'.scroll_speed \div SPEED_UNIT
            IN  /\ \A i \in Hits : ObstacleRight(game.obstacles[i]) - step >= -50
                /\ \A i \in CoinHits : game.coins[i].x - step >= -50
                /\ \A i \in PowerUpHits : game.powerups[i].x - step >= -50
                /\ \A i, j \in 1..Len(game.obstacles) :
                     game.obstacles[i].id = game.obstacles[j].id => i = j
                /\ \A i, j \in 1..Len(game.powerups) :
                     game.powerups[i].id = game.powerups[j].id => i = j]_vars

\* C18 witness: tick 1097 of the play of SnapH has run and main goes on: the
\* power-up nobody picked up was removed as off-screen
C18_PowerUpLeftTheScreen ==
    /\ pc = "loop"
    /\ game.playing
    /\ game.scroll_speed = INITIAL_SPEED + 1097
    /\ game.player.shield = 0
    /\ game.powerups = <<>>

\* C19: playing and game_over are never both true; paused is true only when
\* the session is playing, not game over, and the start screen has been left;
\* no step taken while paused ends the game, and a restart leaves paused
\* false.
C19_PausedOnlyInPlay ==
    /\ [](/\ ~(game.playing /\ game.game_over)
          /\ paused => game.playing /\ ~game.game_over /\ ~in_start)
    /\ [][/\ paused => game'.playing /\ ~game'.game_over
          /\ game'.game_over /\ ~game.game_over => ~paused /\ ~paused'
          /\ Restart => ~paused /\ ~paused']_vars

\* C19 witness: paused in mid-air, during play
C19_PausedInTheAir ==
    /\ paused
    /\ ticks > 0
    /\ ~game.player.on_ground
    /\ game.player.y < (GROUND_Y - PLAYER_HEIGHT) * TENTH

\* C20: whatever jump() calls are interleaved with the ticks, an airborne
\* player lands again if update() keeps being executed, and y never goes
\* above the top of the screen (y >= 0).
C20_AlwaysLands ==
    /\ ~game.player.on_ground ~> game.player.on_ground
    /\ [](game.player.y >= 0 /\ game.player.rect_y >= 0)

\* C20 witness: the top of the highest flight, a double jump made at the top
\* of the jump: 103.7 pixels below the top of the screen
C20_HighestPoint ==
    /\ ~game.player.on_ground
    /\ ~game.player.double_jump_allowed
    /\ game.player.y = 1037

=============================================================================
